---- MODULE Spec2Model ----
(***************************************************************************)
(* One run of a tracker process of the repository.                         *)
(*                                                                         *)
(*   tracker = "perm"  : main.py -> PERMScraper.get_perm_status            *)
(*                       -> ETAEstimator.calculate_eta -> notifier         *)
(*   tracker = "uscis" : run.py / src/uscis_tracker/main.py                *)
(*                       -> CaseStatusAPI.get_case_status -> notifier      *)
(*                                                                         *)
(* The remote servers, the browser driver and the SMTP transport are the   *)
(* environment: every answer they can give is an input chosen with \E.     *)
(*                                                                         *)
(* Spec      : one run, from configuration to exit code                    *)
(* SpecEmail : EmailNotificationService over every configuration string    *)
(* SpecEta   : ETAEstimator.calculate_eta over positions, rates and dates  *)
(* SpecText  : PERMScraper._parse_api_response and                         *)
(*             _extract_status_from_results over responses and pages       *)
(***************************************************************************)
EXTENDS Integers, Sequences, FiniteSets, TLC

(* ------------------------------ bounds --------------------------------- *)
\* largest SCRAPER_RETRIES value explored (the configured value is any int)
MaxRetries == 2
\* depth at which a further recursive _get_status_from_api call raises
\* RecursionError (the interpreter's recursion limit, scaled down)
MaxDepth == 3
\* longest RECIPIENT_EMAIL setting explored, in characters
MaxSetting == 3
\* longest SENDER_EMAIL / SENDER_PASSWORD setting explored, in characters
MaxField == 1
\* every queue position from -1 up to this one is explored, with the
\* positions around the thresholds of the estimator added to them
MaxPosition == 12
\* longest status string and page text explored, in words
MaxWords == 2
\* longest case number explored beside the case numbers of the lookup table
MaxCaseLen == 3
\* requests found in the performance log, additional URL patterns (14 in the
\* code), data formats (4 in the code) and wait attempts (10 in the code)
MaxDiscovered == 1
MaxPatterns == 1
MaxDataFormats == 2
MaxWaitAttempts == 2
\* get_case_status calls made on one CaseStatusAPI instance
MaxCalls == 2

(* --------------------------- program constants ------------------------- *)
\* max_retries of the page-load loop in _scrape_with_selenium
max_retries == 3
\* config.MOCK_TOTAL_APPLICATIONS, the estimated_total_queue of the estimator
MOCK_TOTAL_APPLICATIONS == 5000
\* datetime.max.toordinal(): adding a timedelta that leaves 0001-01-01 ..
\* 9999-12-31 raises OverflowError
MAXORDINAL == 3652059
\* the hardcoded results of _get_fallback_eta: '2024-06-15' and '2024-03-15'
\* as proleptic ordinals, and the 120 days
PLACEHOLDER_APPROVAL_DATE == 739052
PLACEHOLDER_PROCESSING_DATE == 738960
PLACEHOLDER_DAYS == 120
\* date.toordinal() of the first run date explored, 2026-11-01, a Sunday
FIRST_RUN_DATE == 739921
\* config.DEFAULT_PROCESSING_RATE and config.MOCK_POSITION as shipped
DEFAULT_PROCESSING_RATE == 50
MOCK_POSITION == 1500

(* ------------------------------ inputs --------------------------------- *)
CaseNumbers == {"WAC1234567890", "IOE0933489493"}
Methods == {"email", "telegram", "sms"}
\* answers of the dashboard endpoint used by _try_direct_api_call
DirectAnswers == {"200_dict", "200_not_dict", "200_not_json", "http_error", "exception"}
\* answers of the case-status endpoint used by _get_status_from_api; "500"
\* stands for every status code the if-chain has no branch of its own for
ApiAnswers == {"200_dict", "200_not_dict", "200_not_json", "401", "404", "503",
               "500", "exception"}
\* answers of the token endpoint used by _get_access_token
TokenAnswers == {"200_token", "200_no_token", "http_error", "exception"}
\* answers of the status form used by _get_status_from_web_scraping
WebAnswers == {"200_status_div", "200_not_found_text", "200_no_div", "http_error", "exception"}
\* what the rest of _scrape_with_selenium can end with once the page is loaded
InteractOutcomes == {"no_case_input", "no_submit_button", "submission_failed",
                     "api_record", "page_record", "no_status", "exception"}
ApiStatuses == {"Case Was Received", "Case Was Approved"}

(* ------------------------------ records -------------------------------- *)
\* a status dict, reduced to the keys the orchestration looks at; a missing
\* 'is_mock_data' / 'error' key is FALSE / ""
Rec(st, src, mk, err, cn) ==
    [status |-> st, source |-> src, is_mock_data |-> mk, error |-> err, case_number |-> cn]

None == Rec("", "None", FALSE, "", "")

IsRecord(r) == r # None

SetLast(seq, o) == [seq EXCEPT ![Len(seq)].out = o]

Outcome(r) == IF IsRecord(r) THEN "record" ELSE "none"

(* ===================== PERMScraper (src/perm_scraper.py) ================ *)

\* _get_mock_status: the bare except around the date arithmetic makes it
\* total; the record always carries 'is_mock_data': True
PERMScraper_get_mock_status(cn, st) == Rec(st, "mock", TRUE, "", cn)

\* get_perm_status, lines 88-95: the mock flag decides the first strategy
PermFirstStrategy_skipMock(mockFlag) == "direct_api"

PermFirstStrategy(mockFlag) == IF mockFlag THEN "mock" ELSE "direct_api"

\* _try_direct_api_call: only a 200 answer whose body is a JSON object and a
\* parseable submission date give a record; response.json(), data.get and
\* strptime raise inside the try and end in 'return None'
try_direct_api_call(ans, dOk, cn) ==
    IF ans = "200_dict" /\ dOk
    THEN Rec("Pending Review", "direct_api", FALSE, "", cn)
    ELSE None

\* get_perm_status, lines 96-101: return the direct result or fall back
PermAfterDirect_alwaysSelenium(direct_result) == "selenium_setup"

PermAfterDirect(direct_result) ==
    IF IsRecord(direct_result) THEN "cleanup" ELSE "selenium_setup"

\* the part of _scrape_with_selenium after the page is loaded; every exception
\* is caught by the function's own handler (lines 602-604)
scrape_interact(o, cn) ==
    CASE o = "api_record"  -> Rec("Pending Review", "selenium_api", FALSE, "", cn)
      [] o = "page_record" -> Rec("In Queue", "selenium_page", FALSE, "", cn)
      [] OTHER             -> None

\* _cleanup_driver: quit() then self.driver = None, both inside the try; when
\* quit() raises the assignment is skipped and the exception is swallowed
cleanup_driver_noCatch(drv, quitOk) ==
    [driver |-> IF drv = "open" /\ quitOk THEN "none" ELSE drv,
     raised |-> drv = "open" /\ ~quitOk]

cleanup_driver(drv, quitOk) ==
    [driver |-> IF drv = "open" /\ quitOk THEN "none" ELSE drv,
     raised |-> FALSE]

(* ============ CaseStatusAPI (src/src/uscis_tracker/case_status_api.py) == *)

CaseStatusAPI_get_mock_status(cn, st) == Rec(st, "mock", TRUE, "", cn)

\* get_case_status, line 46: 'if not self.access_token'
needs_token_always(held) == TRUE

needs_token(held) == held = 0

\* _get_access_token: the n-th exchange yields token n, or None (0)
get_access_token(ans, n) == IF ans = "200_token" THEN n ELSE 0

parse_api_response(ans, st, cn) ==
    IF ans = "200_dict" THEN Rec(st, "official_api_oauth2", FALSE, "", cn) ELSE None

parse_text_response(cn) == Rec("Status not found", "api_text", FALSE, "", cn)

create_not_found_response(cn) ==
    Rec("Case Not Found", "official_api_oauth2", FALSE, "case_not_found", cn)

create_unauthorized_response(cn) ==
    Rec("Access Denied", "official_api_oauth2", FALSE, "unauthorized", cn)

create_service_unavailable_response(cn) ==
    Rec("Service Temporarily Unavailable", "official_api_oauth2", FALSE,
        "service_unavailable", cn)

\* _get_status_from_api, lines 131-178: what one loop iteration does with the
\* answer to its request
api_dispatch_503offByOne(ans, att, n) ==
    CASE ans \in {"200_dict", "200_not_dict"} -> "parse_json"
      [] ans = "200_not_json"                  -> "parse_text"
      [] ans = "401"                           -> "refresh"
      [] ans = "404"                           -> "not_found"
      [] ans = "503" -> IF att < n THEN "continue" ELSE "service_unavailable"
      [] OTHER       -> IF att < n - 1 THEN "continue" ELSE "none"

api_dispatch_404asError(ans, att, n) ==
    CASE ans \in {"200_dict", "200_not_dict"} -> "parse_json"
      [] ans = "200_not_json"                  -> "parse_text"
      [] ans = "401"                           -> "refresh"
      [] ans = "503" -> IF att < n - 1 THEN "continue" ELSE "service_unavailable"
      [] OTHER       -> IF att < n - 1 THEN "continue" ELSE "none"

api_dispatch(ans, att, n) ==
    CASE ans \in {"200_dict", "200_not_dict"} -> "parse_json"
      [] ans = "200_not_json"                  -> "parse_text"
      [] ans = "401"                           -> "refresh"
      [] ans = "404"                           -> "not_found"
      [] ans = "503" -> IF att < n - 1 THEN "continue" ELSE "service_unavailable"
      [] OTHER       -> IF att < n - 1 THEN "continue" ELSE "none"

\* _get_status_from_web_scraping: a record only for a 200 page with a status
\* block whose text does not contain 'not found'
get_status_from_web_scraping(ans, cn) ==
    IF ans = "200_status_div"
    THEN Rec("Case Was Received", "web_scraping_fallback", FALSE, "", cn)
    ELSE None

(* ============ EmailNotificationService (notifier.py, both trackers) ===== *)

\* a string is a sequence of characters; " " stands for every whitespace
\* character and "a" for every other character but the comma
Chars == {"a", " ", ","}

RECURSIVE StringsUpTo(_)
StringsUpTo(n) ==
    IF n = 0 THEN {<<>>}
    ELSE LET shorter == StringsUpTo(n - 1) IN
         shorter \cup {Append(t, c) : t \in {u \in shorter : Len(u) = n - 1}, c \in Chars}

\* str.split(','): the pieces between the commas, the empty ones included
RECURSIVE split(_)
split(str) ==
    IF \A i \in 1..Len(str) : str[i] # ","
    THEN <<str>>
    ELSE LET i == CHOOSE k \in 1..Len(str) :
                      str[k] = "," /\ \A j \in 1..(k - 1) : str[j] # ","
         IN <<SubSeq(str, 1, i - 1)>> \o split(SubSeq(str, i + 1, Len(str)))

\* str.strip(): leading and trailing whitespace removed
strip_keepWhitespace(str) == str

RECURSIVE strip(_)
strip(str) ==
    IF str = <<>> THEN str
    ELSE IF Head(str) = " " THEN strip(Tail(str))
    ELSE IF str[Len(str)] = " " THEN strip(SubSeq(str, 1, Len(str) - 1))
    ELSE str

\* [email.strip() for email in recipient_emails if email.strip()]
RECURSIVE clean_recipients(_)
clean_recipients(emails) ==
    IF emails = <<>> THEN <<>>
    ELSE IF strip(Head(emails)) # <<>>
         THEN <<strip(Head(emails))>> \o clean_recipients(Tail(emails))
         ELSE clean_recipients(Tail(emails))

NoService == [state |-> "none", sender_email |-> <<>>, sender_password |-> <<>>,
              recipient_emails |-> <<>>]

\* EmailNotificationService.__init__: state "raised" is the ValueError
EmailNotificationService_init(cfg) ==
    LET recipient_emails == clean_recipients(split(cfg.recipient_email)) IN
    [state |-> IF cfg.sender_email = <<>> \/ cfg.sender_password = <<>>
                  \/ recipient_emails = <<>>
               THEN "raised" ELSE "built",
     sender_email |-> cfg.sender_email,
     sender_password |-> cfg.sender_password,
     recipient_emails |-> recipient_emails]

\* ', '.join(self.recipient_emails)
RECURSIVE join(_)
join(emails) ==
    IF emails = <<>> THEN <<>>
    ELSE IF Len(emails) = 1 THEN Head(emails)
    ELSE Head(emails) \o <<",", " ">> \o join(Tail(emails))

(* ========================= ETAEstimator (estimate.py) =================== *)

\* queue positions around the thresholds of the confidence bands and of the
\* progress clamp, and two so large in size that a date leaves the calendar
ThresholdPositions == {50, 75, 100, 101, 500, 501, 1000, 1001, 2000,
                       4997, 4998, 5000, 5001, 3000000, -5000000}
Positions == (-1..MaxPosition) \cup ThresholdPositions
\* processing rates around the thresholds of the rate bands
Rates == {-1, 0, 1, 2, 10, 24, 25, 49, 50, 99, 100, 120}
\* config.DEFAULT_PROCESSING_RATE: the shipped default and the value that
\* makes the effective rate zero
DefaultRates == {0, 50}
\* the run happens on each day of one week
RunDates == FIRST_RUN_DATE..(FIRST_RUN_DATE + 6)
\* submission dates: 0 is a string that is not a %Y-%m-%d date, the others
\* lie before and after the run date and in the last year of the calendar
SubmissionDates(now) ==
    {0} \cup {now - elapsed : elapsed \in {200, 160, 150, 10, 0, -5}}
        \cup {MAXORDINAL - 300, MAXORDINAL - 100}

\* dates are proleptic Gregorian ordinals; datetime.weekday(): Monday is 0
weekday(d) == (d + 6) % 7

\* math.ceil(a / b) for b > 0
ceil_div(a, b) == -((-a) \div b)

Max(a, b) == IF a >= b THEN a ELSE b
Min(a, b) == IF a <= b THEN a ELSE b

\* datetime + timedelta raises OverflowError outside the representable dates
date_overflows(d) == d < 1 \/ d > MAXORDINAL

\* lines 62-65: the rate the division uses
effective_rate_alwaysDefault(processing_rate, default_rate) == default_rate

effective_rate(processing_rate, default_rate) ==
    IF processing_rate <= 0 THEN default_rate ELSE processing_rate

\* _calculate_days_remaining, lines 60-74, for a numeric position and a
\* non-zero effective rate; math.ceil(base_days * 0.2) is ceil(base_days / 5)
calculate_days_remaining_modulo(pos, processing_rate, default_rate) ==
    LET rate == effective_rate(processing_rate, default_rate)
        base_days == pos % rate
        buffer_days == ceil_div(base_days, 5)
    IN Max(1, base_days + buffer_days)

calculate_days_remaining(pos, processing_rate, default_rate) ==
    LET rate == effective_rate(processing_rate, default_rate)
        base_days == ceil_div(pos, rate)
        buffer_days == ceil_div(base_days, 5)
    IN Max(1, base_days + buffer_days)

\* the while loop of lines 81-82 and 152-153
RECURSIVE skip_weekend(_)
skip_weekend(d) == IF weekday(d) >= 5 THEN skip_weekend(d + 1) ELSE d

\* _calculate_approval_date, lines 76-84
calculate_approval_date_anyDay(now, days_remaining) == now + days_remaining

calculate_approval_date(now, days_remaining) == skip_weekend(now + days_remaining)

\* _determine_confidence_level, lines 86-129, the score in hundredths; the
\* rate is the one passed to calculate_eta, not the effective one
determine_confidence_level_strictHigh(pos, processing_rate, days_remaining) ==
    LET s0 == IF pos <= 100 THEN 30 ELSE IF pos <= 500 THEN 20
              ELSE IF pos <= 1000 THEN 10 ELSE 5
        s1 == s0 + (IF processing_rate >= 100 THEN 30 ELSE IF processing_rate >= 50 THEN 20
                    ELSE IF processing_rate >= 25 THEN 10 ELSE 5)
        s2 == s1 + (IF days_remaining <= 30 THEN 20 ELSE IF days_remaining <= 90 THEN 15
                    ELSE IF days_remaining <= 180 THEN 10 ELSE 5)
        confidence_score == s2 + 10
    IN IF confidence_score > 70 THEN "High"
       ELSE IF confidence_score >= 50 THEN "Medium" ELSE "Low"

determine_confidence_level(pos, processing_rate, days_remaining) ==
    LET s0 == IF pos <= 100 THEN 30 ELSE IF pos <= 500 THEN 20
              ELSE IF pos <= 1000 THEN 10 ELSE 5
        s1 == s0 + (IF processing_rate >= 100 THEN 30 ELSE IF processing_rate >= 50 THEN 20
                    ELSE IF processing_rate >= 25 THEN 10 ELSE 5)
        s2 == s1 + (IF days_remaining <= 30 THEN 20 ELSE IF days_remaining <= 90 THEN 15
                    ELSE IF days_remaining <= 180 THEN 10 ELSE 5)
        confidence_score == s2 + 10
    IN IF confidence_score >= 70 THEN "High"
       ELSE IF confidence_score >= 50 THEN "Medium" ELSE "Low"

\* round(100 * num / den, 1) in tenths of a percent, for den > 0, computed
\* on the integer part and the remainder of num / den
round_tenths(num, den) ==
    1000 * (num \div den) + (2000 * (num % den) + den) \div (2 * den)

\* _calculate_progress_percentage, lines 131-140, in tenths of a percent:
\* round(max(0.0, min(100.0, progress)), 1)
calculate_progress_percentage_unclamped(pos) ==
    LET estimated_total_queue == MOCK_TOTAL_APPLICATIONS IN
    IF estimated_total_queue <= 0 THEN 0
    ELSE round_tenths(estimated_total_queue - pos, estimated_total_queue)

calculate_progress_percentage(pos) ==
    LET estimated_total_queue == MOCK_TOTAL_APPLICATIONS IN
    IF estimated_total_queue <= 0 THEN 0
    ELSE LET progress == round_tenths(estimated_total_queue - pos, estimated_total_queue)
         IN Max(0, Min(1000, progress))

\* _calculate_processing_date, lines 142-155
calculate_processing_date(now, pos, processing_rate, default_rate) ==
    skip_weekend(now + ceil_div(pos, effective_rate(processing_rate, default_rate)))

EtaResult(date, days, level, progress, processing, fallback) ==
    [estimated_approval_date |-> date, days_remaining |-> days,
     confidence_level |-> level, progress_percentage |-> progress,
     estimated_processing_date |-> processing, is_fallback |-> fallback]

NoEta == EtaResult(0, 0, "", 0, 0, FALSE)

\* the except branch of _get_fallback_eta, lines 181-193
Placeholder ==
    EtaResult(PLACEHOLDER_APPROVAL_DATE, PLACEHOLDER_DAYS, "Low", 500,
              PLACEHOLDER_PROCESSING_DATE, TRUE)

\* _get_fallback_eta, lines 157-193; a submission date of 0 is a string
\* strptime rejects
get_fallback_eta_noFloor(sub_date, now) ==
    IF sub_date = 0 THEN Placeholder
    ELSE LET days_since_submission == now - sub_date
             estimated_days_remaining == 180 - days_since_submission
         IN IF date_overflows(now + estimated_days_remaining) \/ date_overflows(now + 60)
            THEN Placeholder
            ELSE EtaResult(now + estimated_days_remaining, estimated_days_remaining,
                           "Low", 500, now + 60, TRUE)

get_fallback_eta(sub_date, now) ==
    IF sub_date = 0 THEN Placeholder
    ELSE LET days_since_submission == now - sub_date
             estimated_days_remaining == Max(30, 180 - days_since_submission)
         IN IF date_overflows(now + estimated_days_remaining) \/ date_overflows(now + 60)
            THEN Placeholder
            ELSE EtaResult(now + estimated_days_remaining, estimated_days_remaining,
                           "Low", 500, now + 60, TRUE)

\* the statements of the try block of calculate_eta that can raise: the
\* division (TypeError, ZeroDivisionError) and the date additions
main_computation_raises(pos, is_number, processing_rate, default_rate, now) ==
    \/ ~is_number
    \/ effective_rate(processing_rate, default_rate) = 0
    \/ LET days_remaining == calculate_days_remaining(pos, processing_rate, default_rate) IN
         \/ date_overflows(now + days_remaining)
         \/ date_overflows(calculate_approval_date(now, days_remaining))
    \/ LET processing_days == ceil_div(pos, effective_rate(processing_rate, default_rate)) IN
         \/ date_overflows(now + processing_days)
         \/ date_overflows(calculate_processing_date(now, pos, processing_rate, default_rate))

\* calculate_eta, lines 22-58
calculate_eta(pos, is_number, processing_rate, sub_date, now, default_rate) ==
    IF main_computation_raises(pos, is_number, processing_rate, default_rate, now)
    THEN get_fallback_eta(sub_date, now)
    ELSE LET days_remaining == calculate_days_remaining(pos, processing_rate, default_rate) IN
         EtaResult(calculate_approval_date(now, days_remaining),
                   days_remaining,
                   determine_confidence_level(pos, processing_rate, days_remaining),
                   calculate_progress_percentage(pos),
                   calculate_processing_date(now, pos, processing_rate, default_rate),
                   FALSE)

(* ============== PERMScraper: parsing of responses and pages ============= *)

\* a text is a sequence of words; the words carry the letter cases and the
\* one containment ("disapproved" contains "approved") the keyword test of
\* the code can tell apart
Words == {"approved", "CERTIFIED", "Denied", "rejected", "Disapproved", "pending", "Queue"}

RECURSIVE TextsUpTo(_)
TextsUpTo(n) ==
    IF n = 0 THEN {<<>>}
    ELSE LET shorter == TextsUpTo(n - 1) IN
         shorter \cup {Append(t, w) : t \in {u \in shorter : Len(u) = n - 1}, w \in Words}

\* str.lower(), word by word
lower(w) ==
    CASE w = "CERTIFIED" -> "certified"
      [] w = "Denied" -> "denied"
      [] w = "Disapproved" -> "disapproved"
      [] w = "Queue" -> "queue"
      [] w = "Approved" -> "approved"
      [] w = "Pending" -> "pending"
      [] w = "Review" -> "review"
      [] w = "DENIED" -> "denied"
      [] w = "RFE" -> "rfe"
      [] w = "Request for Evidence" -> "request for evidence"
      [] w = "Received" -> "received"
      [] w = "Case" -> "case"
      [] OTHER -> w

\* `word in lowered`: substring test of a keyword against a lowered text
word_in(word, lowered) ==
    \E i \in 1..Len(lowered) :
        \/ lowered[i] = word
        \/ (word = "approved" /\ lowered[i] = "disapproved")

lowered_text(text) == [i \in 1..Len(text) |-> lower(text[i])]

\* lines 911-915 and 954-958: approval words are tested first
normalize_status_denialFirst(status) ==
    LET lowered == lowered_text(status) IN
    IF word_in("denied", lowered) \/ word_in("rejected", lowered)
    THEN <<"Denied">>
    ELSE IF word_in("approved", lowered) \/ word_in("certified", lowered)
    THEN <<"Approved">>
    ELSE status

normalize_status(status) ==
    LET lowered == lowered_text(status) IN
    IF word_in("approved", lowered) \/ word_in("certified", lowered)
    THEN <<"Approved">>
    ELSE IF word_in("denied", lowered) \/ word_in("rejected", lowered)
    THEN <<"Denied">>
    ELSE status

ParsedRecord(st, pos, rate, remaining) ==
    [returned |-> TRUE, status |-> st, position_in_queue |-> pos,
     processing_rate |-> rate, remaining_days |-> remaining]

\* the functions return None
NoRecord == [returned |-> FALSE, status |-> <<>>, position_in_queue |-> 0,
             processing_rate |-> 0, remaining_days |-> -1]

\* a page as the regular expressions of _extract_status_from_results see it:
\* its words, and what each pattern matched (-1: no match; -2: the group
\* [\d,]+ matched commas without a digit, so that int('') raises ValueError)
Pages ==
    [text : TextsUpTo(MaxWords),
     queue_position : {-2, -1, 0, 8585},
     per_day : {-1, 0, DEFAULT_PROCESSING_RATE, 443},
     completion_date : BOOLEAN,
     remaining : {-1, 0, 19, 30, 31, 90, 91, 200},
     current_backlog : {-2, -1, 91580}]

NoPage == [text |-> <<>>, queue_position |-> -1, per_day |-> -1,
           completion_date |-> FALSE, remaining |-> -1, current_backlog |-> -1]

\* lines 1010-1020: the status derived from the remaining days
status_from_remaining(remaining_days) ==
    IF remaining_days = -1 THEN <<"Pending", "Review">>
    ELSE IF remaining_days <= 0 THEN <<"Completed">>
    ELSE IF remaining_days <= 30 THEN <<"Final", "Review">>
    ELSE IF remaining_days <= 90 THEN <<"In", "Processing">>
    ELSE <<"In", "Queue">>

\* _extract_status_from_results, lines 943-1059. position, processing_rate
\* and completion_date are assigned in the else branch of the keyword test
\* only: after a keyword match line 1023 reads an unbound local, the
\* UnboundLocalError is caught at line 1057 and None is returned; so is the
\* ValueError of lines 965 and 993
extract_status_from_results(page) ==
    LET lowered == lowered_text(page.text)
        int_raises == page.queue_position = -2 \/ page.current_backlog = -2
        keyword == \/ word_in("approved", lowered) \/ word_in("certified", lowered)
                   \/ word_in("denied", lowered) \/ word_in("rejected", lowered)
        processing_rate == IF page.per_day = -1 THEN DEFAULT_PROCESSING_RATE
                           ELSE page.per_day
    IN IF keyword \/ int_raises THEN NoRecord
       ELSE IF page.queue_position # -1 \/ processing_rate # DEFAULT_PROCESSING_RATE
               \/ page.completion_date
       THEN ParsedRecord(status_from_remaining(page.remaining),
                         IF page.queue_position > 0 THEN page.queue_position
                         ELSE MOCK_POSITION,
                         processing_rate, page.remaining)
       ELSE NoRecord

\* a response body: JSON object (a status text, a position and a rate, 0
\* standing for an absent or falsy value), other JSON, or not JSON (a page)
Responses ==
    [kind : {"json_dict"}, status : TextsUpTo(MaxWords), position : {0, 7},
     rate : {-5, 0, DEFAULT_PROCESSING_RATE, 3}, page : {NoPage}]
    \cup [kind : {"json_other"}, status : {<<>>}, position : {0}, rate : {0}, page : {NoPage}]
    \cup [kind : {"not_json"}, status : {<<>>}, position : {0}, rate : {0},
          page : Pages]

NoResponse == [kind |-> "none", status |-> <<>>, position |-> 0, rate |-> 0, page |-> NoPage]

\* PERMScraper._parse_api_response, lines 894-941
PERMScraper_parse_api_response(response) ==
    IF response.kind = "not_json" THEN extract_status_from_results(response.page)
    ELSE IF response.kind = "json_other" THEN NoRecord
    ELSE LET pos == response.position
             processing_rate == IF response.rate = 0 THEN DEFAULT_PROCESSING_RATE
                                ELSE response.rate
             status == IF response.status = <<>> THEN <<"Pending", "Review">>
                       ELSE response.status
         IN IF pos # 0 \/ processing_rate # DEFAULT_PROCESSING_RATE
            THEN ParsedRecord(normalize_status(status),
                              IF pos # 0 THEN pos ELSE MOCK_POSITION,
                              processing_rate, -1)
            ELSE NoRecord

(* ====== PERMScraper._scrape_with_selenium: submission and extraction ==== *)

\* config.PERM_UPDATE_URL, the page the driver loaded
base_url == "https://permupdate.com"

\* the pages the browser can be on: URL and title
BrowserPages ==
    [url : {base_url, "https://permupdate.com/results"},
     title : {"PERM Dashboard", "PERM Tracker", "Dashboard | Results"}]

\* lines 439, 454, 472, 490: the test each method makes after it has acted,
\* current_url != base_url or "dashboard" not in title.lower()
submission_check(page) ==
    page.url # base_url \/ page.title \notin {"PERM Dashboard", "Dashboard | Results"}

\* lines 432-496: the methods in the order of the code
SubmissionMethods == <<"native_click", "scripted_click", "form_submit", "keyboard_enter">>

\* line 711: methods = ['POST', 'GET']
HttpMethods == <<"POST", "GET">>

\* a position in the loops of lines 551-557 and 721-755
Slot(p, m, f, e) == [pattern |-> p, method |-> m, format |-> f, encoding |-> e]

\* past the last additional pattern
NoSlot == Slot(0, 0, 0, 0)

\* the request after this one when no record was returned.  A data format
\* is sent twice with POST, as JSON then as form data, and once with GET, as
\* query parameters; raised: the request raised, and 'continue' (line 755)
\* skips the rest of the data format
next_slot(slot, raised, n_patterns, n_formats) ==
    IF ~raised /\ slot.encoding < (IF HttpMethods[slot.method] = "POST" THEN 2 ELSE 1)
    THEN Slot(slot.pattern, slot.method, slot.format, slot.encoding + 1)
    ELSE IF slot.format < n_formats
    THEN Slot(slot.pattern, slot.method, slot.format + 1, 1)
    ELSE IF slot.method < Len(HttpMethods)
    THEN Slot(slot.pattern, slot.method + 1, 1, 1)
    ELSE IF slot.pattern < n_patterns
    THEN Slot(slot.pattern + 1, 1, 1, 1)
    ELSE NoSlot

\* answers to one request of _try_discovered_api / _try_api_call: the request
\* raises, the status code is not 200, or a response is parsed
ApiCallAnswers ==
    [code : {"exception", "not_200"}, body : {NoResponse}]
    \cup [code : {"200"},
          body : [kind : {"json_dict"}, status : {<<>>}, position : {0, 7},
                  rate : {0, DEFAULT_PROCESSING_RATE}, page : {NoPage}]
                 \cup [kind : {"json_other", "not_json"}, status : {<<>>},
                       position : {0}, rate : {0}, page : {NoPage}]]

\* lines 729-732, 737-740, 748-751, 881-885: the record of a request, None
\* unless the answer is a 200 whose body parses to a record
api_call_result(ans) ==
    IF ans.code = "200" THEN PERMScraper_parse_api_response(ans.body) ELSE NoRecord

\* 'if result: return result' / 'if status_info: return status_info'
returns_record_never(rec) == FALSE

returns_record(rec) == rec.returned

\* rendered pages of the wait loop, lines 564-597; "exception": the driver
\* raises while the page source is read
WaitAnswers ==
    [raised : {TRUE}, page_source : {NoPage}]
    \cup [raised : {FALSE},
          page_source : [text : {<<>>}, queue_position : {-1, 0, 8585},
                         per_day : {-1, 443}, completion_date : {FALSE},
                         remaining : {19}, current_backlog : {-1}]]

(* ========== case-number lookups and the rendered email (USCIS, PERM) ==== *)

\* a case number is a sequence of characters
WAC1234567890 == <<"W", "A", "C", "1", "2", "3", "4", "5", "6", "7", "8", "9", "0">>
I_140 == <<"I", "-", "1", "4", "0">>
Unknown == <<"U", "n", "k", "n", "o", "w", "n">>

\* the dictionaries of lines 349-357 and of notifier.py lines 156-163
form_mapping ==
    [prefix \in {<<"Y", "S", "C">>, <<"W", "A", "C">>, <<"L", "I", "N">>,
                 <<"S", "R", "C">>, <<"M", "S", "C">>, <<"I", "O", "E">>,
                 <<"G", "-">>} |-> I_140]

service_center_mapping ==
    (<<"Y", "S", "C">> :> "Vermont Service Center")
    @@ (<<"W", "A", "C">> :> "California Service Center")
    @@ (<<"L", "I", "N">> :> "Nebraska Service Center")
    @@ (<<"S", "R", "C">> :> "Texas Service Center")
    @@ (<<"M", "S", "C">> :> "Missouri Service Center")
    @@ (<<"I", "O", "E">> :> "Electronic Filing")

\* CaseStatusAPI._extract_form_type, lines 344-359
extract_form_type(case_number) ==
    IF Len(case_number) >= 3
    THEN LET prefix == SubSeq(case_number, 1, 3) IN
         IF prefix \in DOMAIN form_mapping THEN form_mapping[prefix] ELSE prefix
    ELSE Unknown

\* EmailNotificationService._extract_service_center_from_case_number,
\* uscis_tracker/notifier.py lines 152-165
extract_service_center_from_case_number(case_number) ==
    IF Len(case_number) >= 3
    THEN LET prefix == SubSeq(case_number, 1, 3) IN
         IF prefix \in DOMAIN service_center_mapping
         THEN service_center_mapping[prefix] ELSE "Unknown Service Center"
    ELSE "Unknown Service Center"

\* case numbers: one per key of the tables, the example of the documentation
\* and every string over four letters up to the length bound
RECURSIVE CaseStringsUpTo(_)
CaseStringsUpTo(n) ==
    IF n = 0 THEN {<<>>}
    ELSE LET shorter == CaseStringsUpTo(n - 1) IN
         shorter \cup {Append(t, c) : t \in {u \in shorter : Len(u) = n - 1},
                                      c \in {"W", "A", "C", "E"}}

\* status texts as the two notifiers receive them, as words
RECURSIVE StatusTextsUpTo(_)
StatusTextsUpTo(n) ==
    IF n = 0 THEN {<<>>}
    ELSE LET shorter == StatusTextsUpTo(n - 1) IN
         shorter \cup {Append(t, w) : t \in {u \in shorter : Len(u) = n - 1},
                                      w \in {"Approved", "DENIED", "RFE",
                                              "Request for Evidence", "pending",
                                              "Received", "Case"}}

\* the colour chain of uscis_tracker/notifier.py lines 80-91
uscis_status_color_pendingFirst(current_status) ==
    LET lowered == lowered_text(current_status) IN
    IF word_in("approved", lowered) THEN "#28a745"
    ELSE IF word_in("denied", lowered) THEN "#dc3545"
    ELSE IF word_in("pending", lowered) THEN "#ffc107"
    ELSE IF word_in("rfe", lowered) \/ word_in("request for evidence", lowered)
    THEN "#fd7e14"
    ELSE IF word_in("received", lowered) THEN "#6f42c1"
    ELSE "#007bff"

uscis_status_color(current_status) ==
    LET lowered == lowered_text(current_status) IN
    IF word_in("approved", lowered) THEN "#28a745"
    ELSE IF word_in("denied", lowered) THEN "#dc3545"
    ELSE IF word_in("rfe", lowered) \/ word_in("request for evidence", lowered)
    THEN "#fd7e14"
    ELSE IF word_in("pending", lowered) THEN "#ffc107"
    ELSE IF word_in("received", lowered) THEN "#6f42c1"
    ELSE "#007bff"

\* the colour chain of notifier.py lines 76-82
perm_status_color(current_status) ==
    LET lowered == lowered_text(current_status) IN
    IF word_in("approved", lowered) THEN "#28a745"
    ELSE IF word_in("denied", lowered) THEN "#dc3545"
    ELSE IF word_in("pending", lowered) THEN "#ffc107"
    ELSE "#007bff"

NoBody == [status_color |-> "", service_center |-> ""]

\* _create_email_body: the accent colour and, in the USCIS notifier and for
\* form type I-140 only, the service center line
create_email_body(kind, case_number, current_status, form_type) ==
    IF kind = "perm"
    THEN [status_color |-> perm_status_color(current_status), service_center |-> ""]
    ELSE [status_color |-> uscis_status_color(current_status),
          service_center |-> IF form_type = I_140
                             THEN extract_service_center_from_case_number(case_number)
                             ELSE ""]

(* ===================== orchestrator (main.py, run.py) =================== *)

\* main(): a status of None ends the run at once (main.py lines 159-161,
\* uscis_tracker/main.py lines 115-117); otherwise the PERM tracker goes on
\* to the estimate and the USCIS tracker straight to the notification
MainAfterStatus_ignoreNone(status_is_None, trk) ==
    IF trk = "perm" THEN "estimate" ELSE "notify"

MainAfterStatus(status_is_None, trk) ==
    IF status_is_None THEN "exit"
    ELSE IF trk = "perm" THEN "estimate" ELSE "notify"

\* sys.exit(0 if success else 1)
ExitCode_inverted(success) == IF success THEN 1 ELSE 0

ExitCode(success) == IF success THEN 0 ELSE 1

(* ================================ state ================================= *)
VARIABLES
    tracker,        \* which program runs: "perm" (main.py) or "uscis" (run.py)
    mock,           \* config.ENABLE_MOCK_DATA
    retries,        \* config.SCRAPER_RETRIES (self.retries)
    caseNumber,     \* config.PERM_CASE_NUMBER / config.CASE_NUMBER
    dateOk,         \* config.SUBMISSION_DATE parses as %Y-%m-%d
    method,         \* config.NOTIFICATION_METHOD
    emailComplete,  \* sender, password and recipient list are all non-blank
    pc,             \* position of the run
    driver,         \* PERMScraper.driver: "none" or "open"
    loadAttempt,    \* attempt of the page-load loop
    token,          \* CaseStatusAPI.access_token: 0 is None, n the n-th token
    attempt,        \* loop variable of the innermost _get_status_from_api frame
    depth,          \* number of active _get_status_from_api frames
    result,         \* what get_perm_status / get_case_status returned
    escaped,        \* an exception left get_perm_status / get_case_status
    eta,            \* what estimate_approval_eta returned
    exitCode,       \* argument of sys.exit, -1 while the process runs
    \* history of the run, written but never read by the program
    tried,          \* strategies attempted, in order, with their outcome
    net,            \* kinds of network operations performed so far
    faults,         \* exceptions raised inside strategies so far
    seen,           \* answers the case-status endpoint gave in this call
    requests,       \* status requests sent by _get_status_from_api
    exchanges,      \* token exchanges performed
    refreshes,      \* token exchanges made after a 401 answer
    notifierBuilt,  \* a notification service was constructed
    sends,          \* calls of service.send_status_update
    sendOk,         \* the send reported success
    configError,    \* EmailNotificationService.__init__ raised ValueError
    \* the notification service on its own
    email_config,   \* config.EMAIL_CONFIG: the three required settings
    service,        \* the EmailNotificationService object, once constructed
    msg,            \* headers and login of the message handed to SMTP
    \* the estimator on its own
    position,       \* argument position of calculate_eta (0 when not a number)
    position_is_number,  \* FALSE when position is None or a string
    processing_rate,     \* argument processing_rate of calculate_eta
    submission_date,     \* argument submission_date of calculate_eta
    today,               \* the date of datetime.now()
    default_processing_rate, \* self.default_processing_rate
    eta_data,            \* what calculate_eta returned, NoEta before the call
    \* the parsing functions of PERMScraper on their own
    origin,         \* "api_response" or "rendered_page": who is parsing
    response,       \* the response handed to _parse_api_response
    soup,           \* the page handed to _extract_status_from_results
    parsed,         \* the function has returned
    record,         \* what it returned, NoRecord for None
    \* the record fields derived from the case number, and the email body
    notifier_kind,  \* "perm" (notifier.py) or "uscis" (uscis_tracker/notifier.py)
    case_number,    \* the case number of the run, as characters
    api_form_type,  \* formType of the API answer, <<>> when it gives none
    current_status, \* the status text of the record
    form_type,      \* form_type of the record, <<>> before it is built
    body_pc,        \* "record", "body" or "done"
    email_body,     \* colour and service center of the rendered body
    \* _scrape_with_selenium from the submission of the form on
    browser_pc,     \* "submit", "submitted", "network", "discovered", "api_call", "wait", "returned"
    browser_page,   \* driver.current_url and driver.title
    forms,          \* driver.find_elements(By.TAG_NAME, "form") is not empty
    next_method,    \* the submission method the code reaches next, 1..4
    submission_successful,
    discovered,     \* discovered API requests not tried yet
    api_slot,       \* position in the loops over patterns, methods, data formats
    wait_attempt,   \* loop variable of the wait loop
    status_info,    \* what _scrape_with_selenium returned, NoRecord for None
    \* history of the browser strategy, written but never read by the program
    methods_tried,  \* submission methods tried, with whether the page changed
    attempt_log,    \* requests and wait attempts made, with the record each gave
    parsed_from,    \* the response or rendered page that was parsed last
    \* one CaseStatusAPI instance over several get_case_status calls
    call_pc,        \* "entry", "api_request", "web", "returned"
    call_retries,   \* self.retries
    access_token,   \* self.access_token: 0 is None, n the token of the n-th exchange
    call_attempt,   \* loop variable of the innermost _get_status_from_api frame
    call_depth,     \* number of active _get_status_from_api frames
    \* history of the instance, written but never read by the program
    calls,          \* get_case_status calls started
    token_exchanges, \* token exchanges performed so far
    latest_obtained, \* the token of the last exchange that succeeded
    exchange_failed, \* a token exchange failed in the current call
    exchange_log,   \* for each exchange: the token held and the answer it followed
    request_log     \* for each status request: the token carried, the latest one

config == <<tracker, mock, retries, caseNumber, dateOk, method, emailComplete>>
permVars == <<driver, loadAttempt>>
apiVars == <<token, attempt, depth, seen, requests, exchanges, refreshes>>
notifyVars == <<eta, exitCode, notifierBuilt, sends, sendOk, configError>>
runVars == <<config, permVars, apiVars, notifyVars, pc, result, escaped, tried, net, faults>>
emailVars == <<email_config, service, msg>>
etaInputs == <<position, position_is_number, processing_rate, submission_date,
               today, default_processing_rate>>
etaVars == <<etaInputs, eta_data>>
textInputs == <<origin, response, soup>>
textVars == <<textInputs, parsed, record>>
bodyVars == <<notifier_kind, case_number, api_form_type, current_status, form_type, body_pc,
              email_body>>
submitVars == <<browser_page, forms, next_method, submission_successful, methods_tried>>
extractVars == <<discovered, api_slot, wait_attempt, attempt_log, parsed_from>>
browserVars == <<browser_pc, submitVars, extractVars, status_info>>
callVars == <<call_pc, call_retries, access_token, call_attempt, call_depth,
              calls, token_exchanges, latest_obtained, exchange_failed, exchange_log,
              request_log>>
funcVars == <<emailVars, etaVars, textVars, bodyVars, browserVars, callVars>>
vars == <<runVars, funcVars>>

NoMsg == [From |-> <<>>, To |-> <<>>, login |-> <<>>, password |-> <<>>, sent |-> FALSE]

\* the notification service is not exercised on its own
EmailIdle ==
    /\ email_config = [sender_email |-> <<>>, sender_password |-> <<>>,
                       recipient_email |-> <<>>]
    /\ service = NoService
    /\ msg = NoMsg

\* the estimator is not exercised on its own
EtaIdle ==
    /\ position = 0 /\ position_is_number = TRUE /\ processing_rate = 0
    /\ submission_date = 0 /\ today = FIRST_RUN_DATE
    /\ default_processing_rate = 50
    /\ eta_data = NoEta

\* the parsing functions are not exercised on their own
TextIdle ==
    /\ origin = "none" /\ response = NoResponse /\ soup = NoPage
    /\ parsed = FALSE /\ record = NoRecord

\* no record is built and no body rendered on their own
BodyIdle ==
    /\ notifier_kind = "none" /\ case_number = <<>> /\ api_form_type = <<>>
    /\ current_status = <<>> /\ form_type = <<>> /\ body_pc = "idle"
    /\ email_body = NoBody

\* the browser strategy is not followed step by step
BrowserIdle ==
    /\ browser_pc = "idle"
    /\ browser_page = [url |-> base_url, title |-> "PERM Dashboard"]
    /\ forms = FALSE /\ next_method = 1 /\ submission_successful = FALSE
    /\ discovered = 0 /\ api_slot = NoSlot /\ wait_attempt = 0
    /\ status_info = NoRecord
    /\ methods_tried = <<>> /\ attempt_log = <<>>
    /\ parsed_from = NoResponse

\* no instance is followed over several calls
CallsIdle ==
    /\ call_pc = "idle" /\ call_retries = 0 /\ access_token = 0
    /\ call_attempt = 0 /\ call_depth = 0
    /\ calls = 0 /\ token_exchanges = 0 /\ latest_obtained = 0
    /\ exchange_failed = FALSE /\ exchange_log = {} /\ request_log = {}

FuncIdle == EmailIdle /\ EtaIdle /\ TextIdle /\ BodyIdle /\ BrowserIdle /\ CallsIdle

Init ==
    /\ tracker \in {"perm", "uscis"}
    /\ mock \in BOOLEAN
    /\ retries \in 0..MaxRetries
    /\ caseNumber \in CaseNumbers
    /\ dateOk \in BOOLEAN
    /\ method \in Methods
    /\ emailComplete \in BOOLEAN
    /\ pc = "start"
    /\ driver = "none"
    /\ loadAttempt = 0
    /\ token = 0
    /\ attempt = 0
    /\ depth = 0
    /\ result = None
    /\ escaped = FALSE
    /\ eta = "unset"
    /\ exitCode = -1
    /\ tried = <<>>
    /\ net = {}
    /\ faults = {}
    /\ seen = {}
    /\ requests = 0
    /\ exchanges = 0
    /\ refreshes = 0
    /\ notifierBuilt = FALSE
    /\ sends = 0
    /\ sendOk = FALSE
    /\ configError = FALSE
    /\ FuncIdle

Strategy(name, o) == [s |-> name, out |-> o]

(* ----------------------- PERMScraper.get_perm_status -------------------- *)

\* lines 85-95: entry, mock check
PermStart ==
    /\ pc = "start" /\ tracker = "perm"
    /\ \E st \in {"Pending Review", "Approved"} :
         IF PermFirstStrategy(mock) = "mock"
         THEN /\ result' = PERMScraper_get_mock_status(caseNumber, st)
              /\ tried' = <<Strategy("mock", "record")>>
              /\ pc' = "cleanup"
         ELSE /\ result' = result
              /\ tried' = <<Strategy("mock", "none")>>
              /\ pc' = "direct_api"
    /\ UNCHANGED <<funcVars, config, permVars, apiVars, notifyVars, escaped, net, faults>>

\* lines 93-101 with _try_direct_api_call
PermDirectApi ==
    /\ pc = "direct_api"
    /\ \E ans \in DirectAnswers :
         LET direct_result == try_direct_api_call(ans, dateOk, caseNumber) IN
         /\ net' = net \cup {"http"}
         /\ faults' = IF ans = "exception" \/ ans \in {"200_not_dict", "200_not_json"}
                         \/ (ans = "200_dict" /\ ~dateOk)
                      THEN faults \cup {"direct_api"} ELSE faults
         /\ tried' = Append(tried, Strategy("direct_api", Outcome(direct_result)))
         /\ result' = direct_result
         /\ pc' = PermAfterDirect(direct_result)
    /\ UNCHANGED <<funcVars, config, permVars, apiVars, notifyVars, escaped>>

\* _scrape_with_selenium lines 180-187 with _setup_driver
PermSetupDriver ==
    /\ pc = "selenium_setup"
    /\ tried' = Append(tried, Strategy("selenium", "running"))
    /\ net' = net \cup {"browser"}
    /\ \E ok \in BOOLEAN :
         IF ok
         THEN /\ driver' = "open"
              /\ loadAttempt' = 0
              /\ pc' = "selenium_load"
              /\ UNCHANGED <<faults, result>>
         ELSE /\ faults' = faults \cup {"setup_driver"}
              /\ result' = None
              /\ pc' = "selenium_done"
              /\ UNCHANGED <<driver, loadAttempt>>
    /\ UNCHANGED <<funcVars, config, apiVars, notifyVars, escaped>>

\* _scrape_with_selenium lines 191-210: page load with retry
PermLoadPage ==
    /\ pc = "selenium_load"
    /\ \E ok \in BOOLEAN :
         IF ok
         THEN /\ pc' = "selenium_interact"
              /\ UNCHANGED <<loadAttempt, faults, result>>
         ELSE /\ faults' = faults \cup {"page_load"}
              /\ IF loadAttempt = max_retries - 1
                 THEN /\ result' = None
                      /\ pc' = "selenium_done"
                      /\ UNCHANGED loadAttempt
                 ELSE /\ loadAttempt' = loadAttempt + 1
                      /\ UNCHANGED <<pc, result>>
    /\ UNCHANGED <<funcVars, config, driver, apiVars, notifyVars, escaped, tried, net>>

\* _scrape_with_selenium lines 212-604: form, submission, extraction
PermInteract ==
    /\ pc = "selenium_interact"
    /\ \E o \in InteractOutcomes :
         /\ result' = scrape_interact(o, caseNumber)
         /\ faults' = IF o = "exception" THEN faults \cup {"interact"} ELSE faults
         /\ net' = IF o = "api_record" THEN net \cup {"http"} ELSE net
    /\ pc' = "selenium_done"
    /\ UNCHANGED <<funcVars, config, permVars, apiVars, notifyVars, escaped, tried>>

\* get_perm_status lines 101-108: the value of the Selenium strategy is returned
PermAfterSelenium ==
    /\ pc = "selenium_done"
    /\ tried' = SetLast(tried, Outcome(result))
    /\ pc' = "cleanup"
    /\ UNCHANGED <<funcVars, config, permVars, apiVars, notifyVars, result, escaped, net, faults>>

\* get_perm_status lines 113-115: finally: self._cleanup_driver()
PermCleanup ==
    /\ pc = "cleanup"
    /\ \E quitOk \in BOOLEAN :
         LET c == cleanup_driver(driver, quitOk) IN
         /\ driver' = c.driver
         /\ escaped' = c.raised
         /\ result' = IF c.raised THEN None ELSE result
         /\ faults' = IF driver = "open" /\ ~quitOk THEN faults \cup {"quit"} ELSE faults
    /\ pc' = "resolved"
    /\ UNCHANGED <<funcVars, config, loadAttempt, apiVars, notifyVars, tried, net>>

(* ---------------------- CaseStatusAPI.get_case_status ------------------- *)

\* lines 39-43: entry, mock check
UscisStart ==
    /\ pc = "start" /\ tracker = "uscis"
    /\ \E st \in ApiStatuses :
         IF mock
         THEN /\ result' = CaseStatusAPI_get_mock_status(caseNumber, st)
              /\ tried' = <<Strategy("mock", "record")>>
              /\ pc' = "resolved"
         ELSE /\ result' = result
              /\ tried' = <<Strategy("mock", "none")>>
              /\ pc' = "token"
    /\ UNCHANGED <<funcVars, config, permVars, apiVars, notifyVars, escaped, net, faults>>

\* lines 45-53: token exchange when no token is held, then the entry of
\* _get_status_from_api (with retries = 0 its loop body never runs, line 180)
UscisGetToken ==
    /\ pc = "token"
    /\ \E tans \in TokenAnswers :
         LET held == IF token = 0 THEN get_access_token(tans, exchanges + 1) ELSE token IN
         /\ token' = held
         /\ exchanges' = IF token = 0 THEN exchanges + 1 ELSE exchanges
         /\ net' = IF token = 0 THEN net \cup {"token"} ELSE net
         /\ faults' = IF token = 0 /\ tans = "exception" THEN faults \cup {"token"} ELSE faults
         /\ IF held = 0
            THEN /\ tried' = Append(tried, Strategy("oauth2_api", "none"))
                 /\ result' = None
                 /\ pc' = "resolved"
                 /\ UNCHANGED <<attempt, depth>>
            ELSE /\ result' = result
                 /\ attempt' = 0
                 /\ depth' = 1
                 /\ IF retries > 0
                    THEN /\ tried' = Append(tried, Strategy("oauth2_api", "running"))
                         /\ pc' = "api_request"
                    ELSE /\ tried' = Append(tried, Strategy("oauth2_api", "none"))
                         /\ pc' = "web"
    /\ UNCHANGED <<funcVars, config, permVars, notifyVars, escaped, seen, requests, refreshes>>

\* one iteration of the loop of _get_status_from_api (lines 114-180), and, when
\* the call returns, lines 53-59 of get_case_status.  A recursive call
\* (line 144) starts a new frame whose value every outer frame returns as it
\* is; at depth MaxDepth the call raises RecursionError inside the try, which
\* the handler of lines 171-178 treats like any other exception.
UscisApiRequest ==
    /\ pc = "api_request"
    /\ \E ans \in ApiAnswers, tans \in TokenAnswers, st \in ApiStatuses :
         LET d0 == api_dispatch(ans, attempt, retries)
             newTok == get_access_token(tans, exchanges + 1)
             d1 == IF d0 # "refresh" THEN d0
                   ELSE IF newTok = 0 THEN "unauthorized"
                   ELSE IF depth < MaxDepth THEN "recurse"
                   ELSE api_dispatch("exception", attempt, retries)
             loopEnds == d1 = "continue" /\ attempt + 1 >= retries
             returns == d1 \notin {"continue", "recurse"} \/ loopEnds
             ret == CASE d1 = "parse_json" -> parse_api_response(ans, st, caseNumber)
                      [] d1 = "parse_text" -> parse_text_response(caseNumber)
                      [] d1 = "not_found" -> create_not_found_response(caseNumber)
                      [] d1 = "unauthorized" -> create_unauthorized_response(caseNumber)
                      [] d1 = "service_unavailable" ->
                             create_service_unavailable_response(caseNumber)
                      [] OTHER -> None
         IN
         /\ requests' = requests + 1
         /\ seen' = seen \cup {ans}
         /\ net' = net \cup (IF d0 = "refresh" THEN {"http", "token"} ELSE {"http"})
         /\ token' = IF d0 = "refresh" THEN newTok ELSE token
         /\ exchanges' = IF d0 = "refresh" THEN exchanges + 1 ELSE exchanges
         /\ refreshes' = IF d0 = "refresh" THEN refreshes + 1 ELSE refreshes
         /\ faults' = faults
                \cup (IF ans \in {"exception", "200_not_dict", "200_not_json"} THEN {"api"} ELSE {})
                \cup (IF d0 = "refresh" /\ tans = "exception" THEN {"token"} ELSE {})
                \cup (IF d0 = "refresh" /\ newTok # 0 /\ depth = MaxDepth
                      THEN {"recursion"} ELSE {})
         /\ depth' = IF d1 = "recurse" THEN depth + 1 ELSE depth
         /\ attempt' = CASE d1 = "recurse" -> 0
                         [] d1 = "continue" /\ ~loopEnds -> attempt + 1
                         [] OTHER -> attempt
         /\ IF ~returns
            THEN UNCHANGED <<pc, result, tried>>
            ELSE IF IsRecord(ret)
            THEN /\ result' = ret
                 /\ tried' = SetLast(tried, "record")
                 /\ pc' = "resolved"
            ELSE /\ result' = None
                 /\ tried' = SetLast(tried, "none")
                 /\ pc' = "web"
    /\ UNCHANGED <<funcVars, config, permVars, notifyVars, escaped>>

\* lines 57-64 with _get_status_from_web_scraping
UscisWebScraping ==
    /\ pc = "web"
    /\ \E ans \in WebAnswers :
         LET status == get_status_from_web_scraping(ans, caseNumber) IN
         /\ result' = status
         /\ tried' = Append(tried, Strategy("web_scraping", Outcome(status)))
         /\ faults' = IF ans = "exception" THEN faults \cup {"web"} ELSE faults
    /\ net' = net \cup {"http"}
    /\ pc' = "resolved"
    /\ UNCHANGED <<funcVars, config, permVars, apiVars, notifyVars, escaped>>

(* ------------------------------ main() ---------------------------------- *)

\* main.py lines 52-77, 157-163; uscis_tracker/main.py lines 42-57, 112-117:
\* the wrapper turns an exception or a falsy status into None, main returns
\* False on None
MainCheckStatus ==
    /\ pc = "resolved"
    /\ LET next_step == MainAfterStatus(escaped \/ ~IsRecord(result), tracker) IN
         /\ pc' = next_step
         /\ exitCode' = IF next_step = "exit" THEN ExitCode(FALSE) ELSE exitCode
    /\ UNCHANGED <<funcVars, config, permVars, apiVars, eta, notifierBuilt, sends, sendOk,
                   configError, result, escaped, tried, net, faults>>

\* main.py lines 80-107 with ETAEstimator.calculate_eta: always yields a
\* result, the computed one, the fallback of _get_fallback_eta, or its
\* hardcoded placeholder when the submission date does not parse
MainEstimate ==
    /\ pc = "estimate"
    /\ \E computed \in BOOLEAN :
         eta' = IF computed THEN "computed"
                ELSE IF dateOk THEN "fallback" ELSE "placeholder"
    /\ pc' = "notify"
    /\ UNCHANGED <<funcVars, config, permVars, apiVars, exitCode, notifierBuilt, sends, sendOk,
                   configError, result, escaped, tried, net, faults>>

\* send_status_update up to the construction of the service (main.py lines
\* 114-120): an unknown method returns False, an incomplete configuration
\* raises ValueError in EmailNotificationService.__init__, caught at line 137
MainBuildNotifier ==
    /\ pc = "notify"
    /\ IF method = "email" /\ emailComplete
       THEN /\ notifierBuilt' = TRUE
            /\ pc' = "send"
            /\ UNCHANGED <<exitCode, configError>>
       ELSE /\ notifierBuilt' = FALSE
            /\ configError' = (method = "email")
            /\ exitCode' = ExitCode(FALSE)
            /\ pc' = "exit"
    /\ UNCHANGED <<funcVars, config, permVars, apiVars, eta, sends, sendOk,
                   result, escaped, tried, net, faults>>

\* service.send_status_update (notifier.py lines 41-71) and the exit of the
\* process: True after the SMTP dialogue, False on any exception
MainSend ==
    /\ pc = "send"
    /\ \E smtpOk \in BOOLEAN :
         /\ sendOk' = smtpOk
         /\ exitCode' = ExitCode(smtpOk)
    /\ sends' = sends + 1
    /\ net' = net \cup {"smtp"}
    /\ pc' = "exit"
    /\ UNCHANGED <<funcVars, config, permVars, apiVars, eta, notifierBuilt, configError,
                   result, escaped, tried, faults>>

Next ==
    \/ PermStart
    \/ PermDirectApi
    \/ PermSetupDriver
    \/ PermLoadPage
    \/ PermInteract
    \/ PermAfterSelenium
    \/ PermCleanup
    \/ UscisStart
    \/ UscisGetToken
    \/ UscisApiRequest
    \/ UscisWebScraping
    \/ MainCheckStatus
    \/ MainEstimate
    \/ MainBuildNotifier
    \/ MainSend

Spec == Init /\ [][Next]_vars

(* ============== the notification service exercised on its own =========== *)

\* no tracker run is in progress
RunIdle ==
    /\ tracker = "perm" /\ mock = TRUE /\ retries = 0
    /\ caseNumber = "WAC1234567890" /\ dateOk = TRUE
    /\ method = "email" /\ emailComplete = TRUE
    /\ pc = "idle"
    /\ driver = "none" /\ loadAttempt = 0
    /\ token = 0 /\ attempt = 0 /\ depth = 0
    /\ result = None /\ escaped = FALSE
    /\ eta = "unset" /\ exitCode = -1
    /\ tried = <<>> /\ net = {} /\ faults = {} /\ seen = {}
    /\ requests = 0 /\ exchanges = 0 /\ refreshes = 0
    /\ notifierBuilt = FALSE /\ sends = 0 /\ sendOk = FALSE
    /\ configError = FALSE

\* every EMAIL_CONFIG the environment can supply, up to the length bounds
InitEmail ==
    /\ RunIdle
    /\ CallsIdle
    /\ BrowserIdle
    /\ BodyIdle
    /\ email_config \in [sender_email : StringsUpTo(MaxField) \ {<<",">>},
                         sender_password : StringsUpTo(MaxField) \ {<<",">>},
                         recipient_email : StringsUpTo(MaxSetting)]
    /\ service = NoService
    /\ msg = NoMsg
    /\ EtaIdle
    /\ TextIdle

\* get_notification_service("email", config.EMAIL_CONFIG): notifier.py lines
\* 28-39 (uscis_tracker/notifier.py lines 29-40)
EmailConstruct ==
    /\ service.state = "none"
    /\ service' = EmailNotificationService_init(email_config)
    /\ UNCHANGED <<runVars, callVars, browserVars, bodyVars, etaVars, textVars, email_config, msg>>

\* EmailNotificationService.send_status_update, notifier.py lines 41-64:
\* callable only on an object whose constructor returned
EmailSend ==
    /\ service.state = "built"
    /\ ~msg.sent
    /\ msg' = [From |-> service.sender_email,
               To |-> join(service.recipient_emails),
               login |-> service.sender_email,
               password |-> service.sender_password,
               sent |-> TRUE]
    /\ UNCHANGED <<runVars, callVars, browserVars, bodyVars, etaVars, textVars, email_config, service>>

NextEmail ==
    \/ EmailConstruct
    \/ EmailSend

SpecEmail == InitEmail /\ [][NextEmail]_vars

(* ===================== the estimator exercised on its own =============== *)

InitEta ==
    /\ RunIdle
    /\ CallsIdle
    /\ BrowserIdle
    /\ BodyIdle
    /\ EmailIdle
    /\ TextIdle
    /\ position_is_number \in BOOLEAN
    /\ position \in IF position_is_number THEN Positions ELSE {0}
    /\ processing_rate \in Rates
    /\ default_processing_rate \in DefaultRates
    /\ today \in RunDates
    /\ submission_date \in SubmissionDates(today)
    /\ eta_data = NoEta

\* estimator.calculate_eta(position, processing_rate, submission_date)
CalculateEta ==
    /\ eta_data = NoEta
    /\ eta_data' = calculate_eta(position, position_is_number, processing_rate,
                                 submission_date, today, default_processing_rate)
    /\ UNCHANGED <<runVars, callVars, browserVars, bodyVars, emailVars, textVars, etaInputs>>

NextEta == CalculateEta

SpecEta == InitEta /\ [][NextEta]_vars

(* ================ the parsing functions exercised on their own ========== *)

\* either an API answered 200 (_try_api_call, _try_discovered_api) or the
\* browser rendered the results page (_scrape_with_selenium)
InitText ==
    /\ RunIdle
    /\ CallsIdle
    /\ BrowserIdle
    /\ BodyIdle
    /\ EmailIdle
    /\ EtaIdle
    /\ origin \in {"api_response", "rendered_page"}
    /\ response \in IF origin = "api_response" THEN Responses ELSE {NoResponse}
    /\ soup \in IF origin = "rendered_page" THEN Pages ELSE {NoPage}
    /\ parsed = FALSE
    /\ record = NoRecord

\* self._parse_api_response(response, ...)
ParseApiResponse ==
    /\ origin = "api_response" /\ ~parsed
    /\ record' = PERMScraper_parse_api_response(response)
    /\ parsed' = TRUE
    /\ UNCHANGED <<runVars, callVars, browserVars, bodyVars, emailVars, etaVars, textInputs>>

\* self._extract_status_from_results(soup, ...)
ExtractStatusFromResults ==
    /\ origin = "rendered_page" /\ ~parsed
    /\ record' = extract_status_from_results(soup)
    /\ parsed' = TRUE
    /\ UNCHANGED <<runVars, callVars, browserVars, bodyVars, emailVars, etaVars, textInputs>>

NextText ==
    \/ ParseApiResponse
    \/ ExtractStatusFromResults

SpecText == InitText /\ [][NextText]_vars

(* ============ the record's form type and the rendered email body ======== *)

\* the USCIS tracker builds a record for the case number and renders it; the
\* PERM tracker renders a record that has no form type
InitBody ==
    /\ RunIdle
    /\ CallsIdle
    /\ BrowserIdle
    /\ EmailIdle
    /\ EtaIdle
    /\ TextIdle
    /\ notifier_kind \in {"perm", "uscis"}
    /\ case_number \in
           IF notifier_kind = "uscis"
           THEN CaseStringsUpTo(MaxCaseLen)
                \cup {WAC1234567890, <<"E", "A", "C", "1", "2">>, <<"G", "-", "1", "2">>,
                      <<"G", "-">>}
                \cup {k \o <<"1">> : k \in DOMAIN service_center_mapping}
                        ELSE {WAC1234567890}
    /\ api_form_type \in IF notifier_kind = "uscis" THEN {<<>>, I_140, <<"I", "-", "4", "8", "5">>}
                          ELSE {<<>>}
    /\ current_status \in StatusTextsUpTo(MaxWords)
    /\ form_type = <<>>
    /\ body_pc = IF notifier_kind = "uscis" THEN "record" ELSE "body"
    /\ email_body = NoBody

\* _parse_api_response of CaseStatusAPI, line 237, and the record builders
\* of lines 209, 271, 292, 310, 328: the form type of the record
BuildRecord ==
    /\ body_pc = "record"
    /\ form_type' = IF api_form_type # <<>> THEN api_form_type
                    ELSE extract_form_type(case_number)
    /\ body_pc' = "body"
    /\ UNCHANGED <<runVars, callVars, browserVars, emailVars, etaVars, textVars, notifier_kind, case_number,
                   api_form_type, current_status, email_body>>

\* EmailNotificationService._create_email_body of either notifier
CreateEmailBody ==
    /\ body_pc = "body"
    /\ email_body' = create_email_body(notifier_kind, case_number, current_status,
                                       form_type)
    /\ body_pc' = "done"
    /\ UNCHANGED <<runVars, callVars, browserVars, emailVars, etaVars, textVars, notifier_kind, case_number,
                   api_form_type, current_status, form_type>>

NextBody ==
    \/ BuildRecord
    \/ CreateEmailBody

SpecBody == InitBody /\ [][NextBody]_vars

(* ======= the browser strategy from the submission of the form on ======== *)

\* the page is loaded, the case number typed and the submit button found
\* (line 425); the driver is on the base URL
InitBrowser ==
    /\ RunIdle
    /\ CallsIdle
    /\ EmailIdle /\ EtaIdle /\ TextIdle /\ BodyIdle
    /\ browser_pc = "submit"
    /\ browser_page \in {p \in BrowserPages : p.url = base_url}
    /\ forms \in BOOLEAN
    /\ next_method = 1
    /\ submission_successful = FALSE
    /\ discovered = 0
    /\ api_slot = NoSlot
    /\ wait_attempt = 0
    /\ status_info = NoRecord
    /\ methods_tried = <<>>
    /\ attempt_log = <<>>
    /\ parsed_from = NoResponse

\* lines 432-496: one of the four try blocks, which raises (the page stays)
\* or leaves the browser on some page; the blocks after the first are
\* guarded by 'if not submission_successful'; block 3 makes no check when
\* no form is found
TrySubmissionMethod ==
    /\ browser_pc = "submit"
    /\ IF submission_successful
       THEN UNCHANGED <<browser_page, submission_successful, methods_tried>>
       ELSE \E o \in [raised : BOOLEAN, page : BrowserPages] :
              LET m == SubmissionMethods[next_method]
                  acted == ~o.raised /\ ~(m = "form_submit" /\ ~forms)
                  after == IF acted THEN o.page ELSE browser_page
              IN /\ browser_page' = after
                 /\ submission_successful' = (acted /\ submission_check(after))
                 /\ methods_tried' = Append(methods_tried,
                        [method |-> m, changed |-> after # browser_page])
    /\ next_method' = next_method + 1
    /\ browser_pc' = IF next_method = Len(SubmissionMethods) THEN "submitted" ELSE "submit"
    /\ UNCHANGED <<runVars, callVars, emailVars, etaVars, textVars, bodyVars, forms, extractVars,
                   status_info>>

\* lines 498-502
AfterSubmission ==
    /\ browser_pc = "submitted"
    /\ browser_pc' = IF submission_successful THEN "network" ELSE "returned"
    /\ UNCHANGED <<runVars, callVars, emailVars, etaVars, textVars, bodyVars, submitVars, extractVars,
                   status_info>>

\* lines 508-515, 559-560: the performance log and the requests found in it;
\* an exception or an empty list leads to the wait loop
AnalyzeNetworkLogs ==
    /\ browser_pc = "network"
    /\ \E raised \in BOOLEAN, api_requests \in 0..MaxDiscovered :
         IF raised \/ api_requests = 0
         THEN /\ browser_pc' = "wait"
              /\ UNCHANGED discovered
         ELSE /\ browser_pc' = "discovered"
              /\ discovered' = api_requests
    /\ UNCHANGED <<runVars, callVars, emailVars, etaVars, textVars, bodyVars, submitVars, api_slot,
                   wait_attempt, attempt_log, parsed_from, status_info>>

\* lines 523-527 with _try_discovered_api: a request without URL or to the
\* base URL is skipped
TryDiscoveredApi ==
    /\ browser_pc = "discovered"
    /\ \E skipped \in BOOLEAN, ans \in ApiCallAnswers :
         LET found == IF skipped THEN NoRecord ELSE api_call_result(ans) IN
         /\ attempt_log' = IF skipped THEN attempt_log
                           ELSE Append(attempt_log, [step |-> "discovered", value |-> found])
         /\ parsed_from' = IF ~skipped /\ ans.code = "200" THEN ans.body ELSE parsed_from
         /\ IF returns_record(found)
            THEN /\ status_info' = found
                 /\ browser_pc' = "returned"
                 /\ UNCHANGED <<discovered, api_slot>>
            ELSE /\ status_info' = status_info
                 /\ discovered' = discovered - 1
                 /\ browser_pc' = IF discovered > 1 THEN "discovered" ELSE "api_call"
                 /\ api_slot' = IF discovered > 1 THEN api_slot ELSE Slot(1, 1, 1, 1)
    /\ UNCHANGED <<runVars, callVars, emailVars, etaVars, textVars, bodyVars, submitVars, wait_attempt>>

\* lines 551-557 with _try_api_call: one request of the loops of lines 721-755
TryApiCall ==
    /\ browser_pc = "api_call"
    /\ \E ans \in ApiCallAnswers :
         LET found == api_call_result(ans)
             following == next_slot(api_slot, ans.code = "exception",
                                    MaxPatterns, MaxDataFormats)
         IN
         /\ attempt_log' = Append(attempt_log, [step |-> "api_call", value |-> found])
         /\ parsed_from' = IF ans.code = "200" THEN ans.body ELSE parsed_from
         /\ IF returns_record(found)
            THEN /\ status_info' = found
                 /\ browser_pc' = "returned"
                 /\ UNCHANGED api_slot
            ELSE /\ status_info' = status_info
                 /\ api_slot' = following
                 /\ browser_pc' = IF following = NoSlot THEN "wait" ELSE "api_call"
    /\ UNCHANGED <<runVars, callVars, emailVars, etaVars, textVars, bodyVars, submitVars, discovered,
                   wait_attempt>>

\* lines 564-600: one attempt of the wait loop; an attempt that raises gives
\* no record
WaitAttempt ==
    /\ browser_pc = "wait"
    /\ \E ans \in WaitAnswers :
         LET found == IF ans.raised THEN NoRecord
                      ELSE extract_status_from_results(ans.page_source)
         IN
         /\ attempt_log' = Append(attempt_log, [step |-> "wait", value |-> found])
         /\ parsed_from' = IF ans.raised THEN parsed_from
                          ELSE [NoResponse EXCEPT !.kind = "rendered_page",
                                                  !.page = ans.page_source]
         /\ IF returns_record(found)
            THEN /\ status_info' = found
                 /\ browser_pc' = "returned"
                 /\ UNCHANGED wait_attempt
            ELSE /\ status_info' = status_info
                 /\ IF wait_attempt + 1 < MaxWaitAttempts
                    THEN /\ wait_attempt' = wait_attempt + 1
                         /\ browser_pc' = "wait"
                    ELSE /\ browser_pc' = "returned"
                         /\ UNCHANGED wait_attempt
    /\ UNCHANGED <<runVars, callVars, emailVars, etaVars, textVars, bodyVars, submitVars, discovered,
                   api_slot>>

NextBrowser ==
    \/ TrySubmissionMethod
    \/ AfterSubmission
    \/ AnalyzeNetworkLogs
    \/ TryDiscoveredApi
    \/ TryApiCall
    \/ WaitAttempt

SpecBrowser == InitBrowser /\ [][NextBrowser]_vars

(* ======== one CaseStatusAPI instance over several get_case_status calls == *)

\* a fresh instance (line 35: self.access_token = None), mock data disabled,
\* at the entry of its first call
InitCalls ==
    /\ RunIdle /\ EmailIdle /\ EtaIdle /\ TextIdle /\ BodyIdle /\ BrowserIdle
    /\ call_pc = "entry"
    /\ call_retries \in 0..MaxRetries
    /\ access_token = 0
    /\ call_attempt = 0
    /\ call_depth = 0
    /\ calls = 1
    /\ token_exchanges = 0
    /\ latest_obtained = 0
    /\ exchange_failed = FALSE
    /\ exchange_log = {}
    /\ request_log = {}

\* get_case_status, lines 45-53: the token is exchanged when none is held
CallGetToken ==
    /\ call_pc = "entry"
    /\ \E tans \in TokenAnswers :
         LET exchange == needs_token(access_token)
             obtained == get_access_token(tans, token_exchanges + 1)
             held == IF exchange THEN obtained ELSE access_token
         IN
         /\ access_token' = held
         /\ token_exchanges' = IF exchange THEN token_exchanges + 1 ELSE token_exchanges
         /\ latest_obtained' = IF exchange /\ obtained # 0 THEN obtained ELSE latest_obtained
         /\ exchange_failed' = (exchange /\ obtained = 0)
         /\ exchange_log' = IF exchange
                            THEN exchange_log \cup {[held |-> access_token, answer |-> "none"]}
                            ELSE exchange_log
         /\ call_pc' = IF held = 0 THEN "returned"
                       ELSE IF call_retries > 0 THEN "api_request" ELSE "web"
         /\ call_attempt' = 0
         /\ call_depth' = IF held = 0 THEN 0 ELSE 1
    /\ UNCHANGED <<runVars, emailVars, etaVars, textVars, bodyVars, browserVars,
                   call_retries, calls, request_log>>

\* one iteration of the loop of _get_status_from_api, lines 114-180: the
\* request carries self.access_token (line 120); a 401 answer is followed by
\* an exchange (line 142) and, when it succeeds, by a recursive call
CallApiRequest ==
    /\ call_pc = "api_request"
    /\ \E ans \in ApiAnswers, tans \in TokenAnswers :
         LET d0 == api_dispatch(ans, call_attempt, call_retries)
             obtained == get_access_token(tans, token_exchanges + 1)
             d1 == IF d0 # "refresh" THEN d0
                   ELSE IF obtained = 0 THEN "unauthorized"
                   ELSE IF call_depth < MaxDepth THEN "recurse"
                   ELSE api_dispatch("exception", call_attempt, call_retries)
             loopEnds == d1 = "continue" /\ call_attempt + 1 >= call_retries
             returns == d1 \notin {"continue", "recurse"} \/ loopEnds
             is_record == d1 \in {"parse_text", "not_found", "unauthorized",
                                  "service_unavailable"}
                          \/ (d1 = "parse_json" /\ ans = "200_dict")
         IN
         /\ request_log' = request_log \cup
                {[carried |-> access_token, latest |-> latest_obtained,
                  after_failure |-> exchange_failed]}
         /\ access_token' = IF d0 = "refresh" THEN obtained ELSE access_token
         /\ token_exchanges' = IF d0 = "refresh" THEN token_exchanges + 1
                               ELSE token_exchanges
         /\ latest_obtained' = IF d0 = "refresh" /\ obtained # 0 THEN obtained
                               ELSE latest_obtained
         /\ exchange_failed' = (exchange_failed \/ (d0 = "refresh" /\ obtained = 0))
         /\ exchange_log' = IF d0 = "refresh"
                            THEN exchange_log \cup {[held |-> access_token, answer |-> ans]}
                            ELSE exchange_log
         /\ call_depth' = IF d1 = "recurse" THEN call_depth + 1 ELSE call_depth
         /\ call_attempt' = CASE d1 = "recurse" -> 0
                              [] d1 = "continue" /\ ~loopEnds -> call_attempt + 1
                              [] OTHER -> call_attempt
         /\ call_pc' = IF ~returns THEN "api_request"
                       ELSE IF is_record THEN "returned" ELSE "web"
    /\ UNCHANGED <<runVars, emailVars, etaVars, textVars, bodyVars, browserVars,
                   call_retries, calls>>

\* get_case_status, lines 57-64: the web form is asked without any token
CallWebScraping ==
    /\ call_pc = "web"
    /\ call_pc' = "returned"
    /\ UNCHANGED <<runVars, emailVars, etaVars, textVars, bodyVars, browserVars,
                   call_retries, access_token, call_attempt, call_depth, calls,
                   token_exchanges, latest_obtained, exchange_failed, exchange_log,
                   request_log>>

\* the next get_case_status call on the same instance
CallAgain ==
    /\ call_pc = "returned"
    /\ calls < MaxCalls
    /\ calls' = calls + 1
    /\ call_pc' = "entry"
    /\ call_attempt' = 0
    /\ call_depth' = 0
    /\ exchange_failed' = FALSE
    /\ UNCHANGED <<runVars, emailVars, etaVars, textVars, bodyVars, browserVars,
                   call_retries, access_token, token_exchanges, latest_obtained,
                   exchange_log, request_log>>

NextCalls ==
    \/ CallGetToken
    \/ CallApiRequest
    \/ CallWebScraping
    \/ CallAgain

SpecCalls == InitCalls /\ [][NextCalls]_vars

(* ===== a resolution attempt, strategy by strategy or inside the browser == *)

InitResolution == Init \/ InitBrowser

NextResolution == Next \/ NextBrowser

SpecResolution == InitResolution /\ [][NextResolution]_vars

(* =============================== claims ================================= *)

Chain == IF tracker = "perm" THEN <<"mock", "direct_api", "selenium">>
         ELSE <<"mock", "oauth2_api", "web_scraping">>

\* get_perm_status / get_case_status has returned to main
Returned == pc \in {"resolved", "estimate", "notify", "send", "exit"}

\* _get_status_from_api was called and has returned
ApiReturned == depth >= 1 /\ pc # "api_request"

\* the value _get_status_from_api returned (get_case_status returns a record
\* of it unchanged and replaces None by the web-scraping result)
ApiReturn == IF Len(tried) >= 2 /\ tried[2].out = "record" THEN result ELSE None

\* C1: the strategies are attempted in the fixed order of the chain (mock,
\* direct API, browser / mock, OAuth2 API, web form), a strategy is attempted
\* only after every earlier one gave no record, nothing is attempted after a
\* record, and the record returned is the one of the last strategy attempted.
C1_StrictPriorityOrder ==
    /\ Len(tried) <= Len(Chain)
    /\ \A i \in 1..Len(tried) : tried[i].s = Chain[i]
    /\ \A i \in 1..Len(tried) : \A j \in 1..(i - 1) : tried[j].out = "none"
    /\ (Returned /\ ~escaped) =>
          (IsRecord(result) <=> tried[Len(tried)].out = "record")

C1_Witness ==
    /\ tracker = "perm" /\ pc = "resolved"
    /\ Len(tried) = 3 /\ tried[2].out = "none" /\ tried[3].out = "record"

\* C2: a strategy that fails counts only as its own failure: when resolution
\* has returned and no attempted strategy gave a record, every strategy of
\* the chain was attempted; in particular web-form scraping was attempted
\* whenever the OAuth2 strategy, token exchange included, gave no record.
C2_FailureFallsThrough ==
    (Returned /\ \A i \in 1..Len(tried) : tried[i].out = "none")
        => Len(tried) = Len(Chain)

\* C3: whatever the strategies' outcomes are, get_perm_status and
\* get_case_status return a record or None and no exception escapes.
C3_NoExceptionEscapes ==
    /\ ~escaped
    /\ Returned => (result = None \/ result.case_number = caseNumber)

C3_Witness ==
    /\ pc = "resolved" /\ ~escaped /\ result = None
    /\ {"direct_api", "interact", "quit"} \subseteq faults

\* C4: within one call of the OAuth2 strategy at most one token refresh is
\* made: a second 401 answer is not followed by a second refresh.
C4_SingleRefresh == refreshes <= 1

\* C5 as stated: when every answer is 503, _get_status_from_api makes exactly
\* `retries` attempts and returns the service-unavailable record, never None.
C5_Original ==
    (ApiReturned /\ seen \subseteq {"503"}) =>
        /\ requests = retries
        /\ ApiReturn = create_service_unavailable_response(caseNumber)

\* C5: with retries >= 1 and only 503 answers, _get_status_from_api makes
\* exactly `retries` attempts and returns the service-unavailable record;
\* with retries = 0 it makes no attempt and returns None.
C5_Retry503 ==
    (ApiReturned /\ seen \subseteq {"503"}) =>
        /\ requests = retries
        /\ ~escaped
        /\ ApiReturn = IF retries >= 1
                       THEN create_service_unavailable_response(caseNumber)
                       ELSE None

C5_Witness ==
    /\ ApiReturned /\ seen = {"503"} /\ retries = 2 /\ requests = 2
    /\ result.error = "service_unavailable"

\* C6: when every answer is a 5xx code other than 503 until the retries are
\* used up, the OAuth2 strategy returns the service-unavailable record.
C6_Other5xxUnavailable ==
    (ApiReturned /\ seen = {"500"}) =>
        ApiReturn = create_service_unavailable_response(caseNumber)

\* C7: a 404 answer ends the call at once (no further request is sent) and
\* get_case_status returns the "Case Not Found" record for the requested case
\* number; no exception, not None, no web-scraping fallback.
C7_NotFoundRecord ==
    "404" \in seen =>
        /\ Returned
        /\ ~escaped
        /\ result = create_not_found_response(caseNumber)
        /\ result.status = "Case Not Found"
        /\ Len(tried) = 2 /\ tried[2].out = "record"

C7_Witness ==
    /\ pc = "resolved" /\ seen = {"404"} /\ requests = 1
    /\ result.status = "Case Not Found"

\* C8: with the mock flag set, resolution performs no HTTP request, no token
\* exchange and opens no browser session, and what it returns is a record
\* with is_mock_data true.
C8_MockNoNetwork ==
    mock =>
        /\ net \cap {"http", "token", "browser"} = {}
        /\ driver = "none" /\ exchanges = 0 /\ requests = 0
        /\ Returned => (~escaped /\ IsRecord(result) /\ result.is_mock_data)

C8_Witness ==
    /\ mock /\ pc = "resolved" /\ tracker = "perm"
    /\ result.is_mock_data /\ net = {}

\* C9: whenever get_perm_status has returned, self.driver is None.
C9_DriverReleased == (tracker = "perm" /\ Returned) => driver = "none"

C11_NotifyOnlyWithRecord ==
    /\ sends <= 1
    /\ (Returned /\ (escaped \/ ~IsRecord(result))) => (~notifierBuilt /\ sends = 0)
    /\ (notifierBuilt \/ sends >= 1) => (Returned /\ IsRecord(result) /\ ~escaped)

C11_Witness ==
    /\ pc = "exit" /\ ~IsRecord(result) /\ ~mock
    /\ method = "email" /\ emailComplete
    /\ ~notifierBuilt /\ sends = 0

\* C12: when the configuration error of an incomplete email configuration is
\* raised, no status request, token exchange or browser session has been
\* started in the run.
C12_ConfigErrorBeforeNetwork ==
    configError =>
        /\ net \cap {"http", "token", "browser"} = {}
        /\ requests = 0 /\ exchanges = 0

\* C13: construction raises the configuration error exactly when the sender
\* address is empty, the sender password is empty, or no comma-separated
\* entry of the recipient setting has a non-whitespace character; a service
\* that was constructed has a non-empty sender, a non-empty password and at
\* least one recipient, every recipient being non-empty and trimmed, and
\* send_status_update only ever uses such fields.
C13_FailsClosed ==
    LET NoRecipient(setting) == \A i \in 1..Len(setting) : setting[i] \in {" ", ","}
        Trimmed(str) == str # <<>> /\ Head(str) # " " /\ str[Len(str)] # " "
    IN
    /\ service.state # "none" =>
         (service.state = "raised" <=>
             \/ email_config.sender_email = <<>>
             \/ email_config.sender_password = <<>>
             \/ NoRecipient(email_config.recipient_email))
    /\ service.state = "built" =>
         /\ service.sender_email # <<>>
         /\ service.sender_password # <<>>
         /\ service.recipient_emails # <<>>
         /\ \A i \in 1..Len(service.recipient_emails) :
                /\ Trimmed(service.recipient_emails[i])
                /\ \A k \in 1..Len(service.recipient_emails[i]) :
                       service.recipient_emails[i][k] # ","
    /\ msg.sent =>
         /\ service.state = "built"
         /\ msg.From # <<>> /\ msg.login # <<>> /\ msg.password # <<>>
         /\ msg.To # <<>> /\ Head(msg.To) # " "

C13_Witness ==
    /\ msg.sent
    /\ email_config.recipient_email = <<" ", "a", ",">>
    /\ service.recipient_emails = << <<"a">> >>

\* C14 as stated: for every position > 0 and rate > 0 the result of
\* calculate_eta has days_remaining >= 1 and an approval date on a weekday.
C14_Original ==
    (eta_data # NoEta /\ position_is_number /\ position > 0 /\ processing_rate > 0) =>
        /\ eta_data.days_remaining >= 1
        /\ weekday(eta_data.estimated_approval_date) < 5

\* C14 amended: for every position > 0 and rate > 0 the result has
\* days_remaining >= 1, and its approval date falls on a weekday whenever
\* the result is not a fallback (the dates of the computation stayed within
\* the calendar).
C14_WeekdayUnlessFallback ==
    (eta_data # NoEta /\ position_is_number /\ position > 0 /\ processing_rate > 0) =>
        /\ eta_data.days_remaining >= 1
        /\ ~eta_data.is_fallback => weekday(eta_data.estimated_approval_date) < 5

C14_Witness ==
    /\ eta_data # NoEta /\ position_is_number /\ position > 0 /\ processing_rate > 0
    /\ ~eta_data.is_fallback
    /\ weekday(today + eta_data.days_remaining) = 5
    /\ eta_data.estimated_approval_date = today + eta_data.days_remaining + 2

\* C15 as stated: for a fixed rate, every position not above the one given
\* yields a days_remaining not above the one returned.
C15_Original ==
    (eta_data # NoEta /\ position_is_number) =>
        \A p \in Positions :
            p <= position =>
                calculate_eta(p, TRUE, processing_rate, submission_date, today,
                              default_processing_rate).days_remaining
                    <= eta_data.days_remaining

\* C15 amended: the same, for two positions whose results are both computed
\* (neither is a fallback).
C15_MonotonicUnlessFallback ==
    (eta_data # NoEta /\ position_is_number /\ ~eta_data.is_fallback) =>
        \A p \in Positions :
            LET smaller == calculate_eta(p, TRUE, processing_rate, submission_date,
                                         today, default_processing_rate)
            IN (p <= position /\ ~smaller.is_fallback) =>
                   smaller.days_remaining <= eta_data.days_remaining

C15_Witness ==
    /\ position = 11 /\ position_is_number /\ processing_rate = 10
    /\ ~eta_data.is_fallback /\ eta_data.days_remaining = 3
    /\ calculate_eta(10, TRUE, processing_rate, submission_date, today,
                     default_processing_rate).days_remaining = 2

C17_ConfidenceBands ==
    LET PositionBand == CASE position <= 100 -> 30 [] position \in 101..500 -> 20
                          [] position \in 501..1000 -> 10 [] OTHER -> 5
        RateBand == CASE processing_rate >= 100 -> 30 [] processing_rate \in 50..99 -> 20
                      [] processing_rate \in 25..49 -> 10 [] OTHER -> 5
        DaysBand == CASE eta_data.days_remaining <= 30 -> 20
                      [] eta_data.days_remaining \in 31..90 -> 15
                      [] eta_data.days_remaining \in 91..180 -> 10 [] OTHER -> 5
        Sum == PositionBand + RateBand + DaysBand + 10
        Label == CASE Sum >= 70 -> "High" [] Sum \in 50..69 -> "Medium" [] OTHER -> "Low"
    IN (eta_data # NoEta /\ ~eta_data.is_fallback) =>
           /\ eta_data.confidence_level = Label
           /\ (position = 500 /\ processing_rate = 50) => eta_data.confidence_level = "High"
           /\ (position = 5000 /\ processing_rate = 10) => eta_data.confidence_level = "Low"

C17_Witness ==
    /\ position = 500 /\ processing_rate = 50
    /\ eta_data.days_remaining = 12 /\ eta_data.confidence_level = "High"
    /\ ~eta_data.is_fallback

\* C18 as stated: a non-numeric position or a zero effective rate ends in a
\* fallback result; a fallback result is marked is_fallback, it has
\* days_remaining = max(30, 180 - days elapsed) when the submission date
\* parses and it is the fixed placeholder when the date does not parse.
C18_Original ==
    eta_data # NoEta =>
        /\ (~position_is_number
              \/ effective_rate(processing_rate, default_processing_rate) <= 0)
               => eta_data.is_fallback
        /\ (eta_data.is_fallback /\ submission_date # 0) =>
               eta_data.days_remaining = Max(30, 180 - (today - submission_date))
        /\ (eta_data.is_fallback /\ submission_date = 0) =>
               /\ eta_data.days_remaining = PLACEHOLDER_DAYS
               /\ eta_data.estimated_approval_date = PLACEHOLDER_APPROVAL_DATE

\* C18 amended: the same, the fixed placeholder being returned when the
\* submission date does not parse or when the fallback date itself would
\* lie after the last date of the calendar.
C18_FallbackShape ==
    LET fallback_days == Max(30, 180 - (today - submission_date))
        no_fallback_date == submission_date = 0 \/ today + fallback_days > MAXORDINAL
    IN eta_data # NoEta =>
        /\ (~position_is_number
              \/ effective_rate(processing_rate, default_processing_rate) <= 0)
               => eta_data.is_fallback
        /\ (eta_data.is_fallback /\ ~no_fallback_date) =>
               /\ eta_data.days_remaining = fallback_days
               /\ eta_data.estimated_approval_date = today + fallback_days
        /\ (eta_data.is_fallback /\ no_fallback_date) =>
               /\ eta_data.days_remaining = PLACEHOLDER_DAYS
               /\ eta_data.estimated_approval_date = PLACEHOLDER_APPROVAL_DATE

C18_Witness ==
    /\ ~position_is_number /\ submission_date = today - 10
    /\ eta_data.is_fallback /\ eta_data.days_remaining = 170

\* C19: a record parsed from a JSON response carries "Approved" when the
\* status string of the response contains "approved" or "certified" in any
\* letter case, "Denied" when it contains "denied" or "rejected" and none of
\* the approval words, and the status string unchanged otherwise.
C19_StatusNormalized ==
    LET ApprovalWords == {"approved", "CERTIFIED", "Disapproved"}
        DenialWords == {"Denied", "rejected"}
        Mentions(text, words) == \E i \in 1..Len(text) : text[i] \in words
        status == response.status
    IN (parsed /\ response.kind = "json_dict" /\ record.returned /\ status # <<>>) =>
           /\ Mentions(status, ApprovalWords) => record.status = <<"Approved">>
           /\ (Mentions(status, DenialWords) /\ ~Mentions(status, ApprovalWords)) =>
                  record.status = <<"Denied">>
           /\ (~Mentions(status, DenialWords) /\ ~Mentions(status, ApprovalWords)) =>
                  record.status = status

C19_Witness ==
    /\ parsed /\ response.kind = "json_dict"
    /\ response.status = <<"rejected", "CERTIFIED">>
    /\ record.returned /\ record.status = <<"Approved">>

\* C20: for a page whose text contains "approved" (or "denied"),
\* _extract_status_from_results produces a record whose status is
\* "Approved" (or "Denied"), whatever remaining-days value the page shows.
C20_KeywordOverridesRemaining ==
    LET says(word) == \E i \in 1..Len(soup.text) : soup.text[i] = word IN
    (parsed /\ origin = "rendered_page") =>
        /\ says("approved") => (record.returned /\ record.status = <<"Approved">>)
        /\ (says("Denied") /\ ~says("approved") /\ ~says("CERTIFIED")
               /\ ~says("Disapproved")) =>
              (record.returned /\ record.status = <<"Denied">>)

\* C21: case number "WAC1234567890" gets form type "I-140" and service
\* center "California Service Center", and every case number whose prefix is
\* not in the table gets "Unknown" as form type and as service center.
C21_PrefixLookup ==
    LET TablePrefixes == {<<"Y", "S", "C">>, <<"W", "A", "C">>, <<"L", "I", "N">>,
                          <<"S", "R", "C">>, <<"M", "S", "C">>, <<"I", "O", "E">>}
        in_table == Len(case_number) >= 3 /\ SubSeq(case_number, 1, 3) \in TablePrefixes
    IN (notifier_kind = "uscis" /\ body_pc # "record") =>
           /\ (case_number = WAC1234567890 /\ api_form_type = <<>>) =>
                  /\ form_type = I_140
                  /\ body_pc = "done" =>
                         email_body.service_center = "California Service Center"
           /\ (~in_table /\ api_form_type = <<>>) => form_type = Unknown
           /\ (~in_table /\ body_pc = "done" /\ form_type = I_140) =>
                  email_body.service_center = "Unknown"

\* C22 as stated: in the notifier of either tracker the accent colour is that
\* of the first of "approved" (green), "denied" (red), "rfe" or "request for
\* evidence" (orange), "pending" (yellow), "received" (purple) the status
\* contains in any letter case, and blue when it contains none.
C22_Original ==
    LET Has(words) == \E i \in 1..Len(current_status) : current_status[i] \in words
        Expected == CASE Has({"Approved"}) -> "#28a745"
                      [] ~Has({"Approved"}) /\ Has({"DENIED"}) -> "#dc3545"
                      [] ~Has({"Approved", "DENIED"}) /\ Has({"RFE", "Request for Evidence"})
                            -> "#fd7e14"
                      [] ~Has({"Approved", "DENIED", "RFE", "Request for Evidence"})
                            /\ Has({"pending"}) -> "#ffc107"
                      [] ~Has({"Approved", "DENIED", "RFE", "Request for Evidence", "pending"})
                            /\ Has({"Received"}) -> "#6f42c1"
                      [] OTHER -> "#007bff"
    IN body_pc = "done" => email_body.status_color = Expected

\* C22 amended: the precedence above holds in the notifier of the USCIS
\* tracker; the notifier of the PERM tracker knows "approved" green,
\* "denied" red, "pending" yellow, in this precedence, and blue otherwise.
C22_ColourPrecedence ==
    LET Has(words) == \E i \in 1..Len(current_status) : current_status[i] \in words
        Full == CASE Has({"Approved"}) -> "#28a745"
                  [] ~Has({"Approved"}) /\ Has({"DENIED"}) -> "#dc3545"
                  [] ~Has({"Approved", "DENIED"}) /\ Has({"RFE", "Request for Evidence"})
                        -> "#fd7e14"
                  [] ~Has({"Approved", "DENIED", "RFE", "Request for Evidence"})
                        /\ Has({"pending"}) -> "#ffc107"
                  [] ~Has({"Approved", "DENIED", "RFE", "Request for Evidence", "pending"})
                        /\ Has({"Received"}) -> "#6f42c1"
                  [] OTHER -> "#007bff"
        Short == CASE Has({"Approved"}) -> "#28a745"
                   [] ~Has({"Approved"}) /\ Has({"DENIED"}) -> "#dc3545"
                   [] ~Has({"Approved", "DENIED"}) /\ Has({"pending"}) -> "#ffc107"
                   [] OTHER -> "#007bff"
    IN body_pc = "done" =>
           email_body.status_color = IF notifier_kind = "uscis" THEN Full ELSE Short

C22_Witness ==
    /\ body_pc = "done" /\ notifier_kind = "uscis"
    /\ current_status = <<"Received", "RFE">>
    /\ email_body.status_color = "#fd7e14"

\* C23: _get_status_from_api sends a number of status requests and makes a
\* number of token refreshes bounded by the retry count alone: every
\* iteration of the loop sends one request and may repeat it once after a
\* refresh.
C23_BoundedByRetries ==
    /\ requests <= 2 * retries
    /\ refreshes <= retries

C28_SubmissionCascade ==
    LET n == Len(methods_tried)
        finished == browser_pc \notin {"idle", "submit"}
    IN /\ n <= Len(SubmissionMethods)
       /\ \A i \in 1..n : methods_tried[i].method = SubmissionMethods[i]
       /\ \A i \in 1..n : \A j \in 1..(i - 1) : ~methods_tried[j].changed
       /\ (finished /\ ~methods_tried[n].changed) => n = Len(SubmissionMethods)
       /\ (finished /\ \A i \in 1..n : ~methods_tried[i].changed) =>
              browser_pc \in {"submitted", "returned"} /\ ~status_info.returned

\* C25: a computed (non-fallback) estimate has days_remaining =
\* max(1, base_days + ceil(base_days * 0.2)) with base_days =
\* ceil(position / effective_rate), the effective rate being the given rate
\* when it is positive and the configured default otherwise; position 500
\* at 50 a day gives base_days 10 and 12 days, position 5000 at 10 a day
\* gives base_days 500.
C25_DaysFormula ==
    LET rate == IF processing_rate > 0 THEN processing_rate ELSE default_processing_rate
        base_days == (position + rate - 1) \div rate
        buffer == (base_days + 4) \div 5
        total == base_days + buffer
    IN (eta_data # NoEta /\ ~eta_data.is_fallback) =>
           /\ rate > 0
           /\ eta_data.days_remaining = IF total >= 1 THEN total ELSE 1
           /\ eta_data.estimated_processing_date = skip_weekend(today + base_days)
           /\ (position = 500 /\ processing_rate = 50) =>
                  /\ base_days = 10
                  /\ eta_data.days_remaining = 12
           /\ (position = 5000 /\ processing_rate = 10) =>
                  /\ base_days = 500
                  /\ eta_data.days_remaining = 600

C25_Witness ==
    /\ eta_data # NoEta /\ ~eta_data.is_fallback
    /\ position = 500 /\ processing_rate = 50
    /\ eta_data.days_remaining = 12

\* C30: in every result of calculate_eta, fallback results included, the
\* estimated processing date is not later than the estimated approval date.
C30_ProcessingBeforeApproval ==
    eta_data # NoEta =>
        eta_data.estimated_processing_date <= eta_data.estimated_approval_date

\* C26: on a page without approval or denial language the status follows the
\* remaining days alone (<= 0 "Completed", 1..30 "Final Review", 31..90
\* "In Processing", above 90 "In Queue", no match "Pending Review"), and a
\* record is returned exactly when a queue position, a rate different from
\* the default or a completion date was found.
C26_RemainingDaysTable ==
    LET lowered == lowered_text(soup.text)
        plain == \A w \in {"approved", "certified", "denied", "rejected"} :
                     ~word_in(w, lowered)
        found == \/ soup.queue_position >= 0
                 \/ soup.per_day \notin {-1, DEFAULT_PROCESSING_RATE}
                 \/ soup.completion_date
        days == soup.remaining
        expected == CASE days = -1 -> <<"Pending", "Review">>
                      [] days \in 0..0 -> <<"Completed">>
                      [] days \in 1..30 -> <<"Final", "Review">>
                      [] days \in 31..90 -> <<"In", "Processing">>
                      [] days > 90 -> <<"In", "Queue">>
    IN (origin = "rendered_page" /\ parsed /\ plain) =>
           /\ record.returned <=> found
           /\ record.returned => record.status = expected

\* C27: every record that carries a processing rate carries a positive one;
\* an absent or non-positive rate of the source is replaced by the default.
C27_RatePositive ==
    (parsed /\ record.returned) => record.processing_rate > 0

\* C29: the bearer token is cached on the instance.  Over any sequence of
\* get_case_status calls a token exchange is made only when no token is held
\* or directly after a 401 answer, every status request carries the token
\* obtained last, and no status request is sent in a call after a token
\* exchange of this call has failed.
C29_TokenCached ==
    /\ \A e \in exchange_log :
           \/ e.answer = "401"
           \/ e.answer = "none" /\ e.held = 0
    /\ \A r \in request_log :
           /\ r.carried # 0
           /\ r.carried = r.latest
           /\ ~r.after_failure

C29_Witness ==
    /\ calls = 2 /\ call_pc = "returned"
    /\ token_exchanges = 1
    /\ request_log = {[carried |-> 1, latest |-> 1, after_failure |-> FALSE]}
    /\ exchange_log = {[held |-> 0, answer |-> "none"]}

====
